---- MODULE Spec2Model ----
(***************************************************************************)
(* Task registry, background workers and benchmark runner of the           *)
(* PostgreSQL-vs-Neo4j comparison service.                                  *)
(*                                                                         *)
(*   Spec        the registry (benchmark_results) with several background  *)
(*               workers interleaving at their await points, the start     *)
(*               requests and the status poll; a benchmark run is seen at  *)
(*               the granularity of its operations.                        *)
(*   SpecRunner  one benchmark task at the granularity of the individual   *)
(*               backend invocations of DatabaseBenchmark.run_benchmark.   *)
(*   FairRunner  SpecRunner with the fairness the event loop gives: a      *)
(*               scheduled task starts, code that is not waiting on a      *)
(*               backend runs on, and an armed timer fires.                *)
(*   SpecCompare the three comparators of two average latencies.           *)
(*   SpecGenerate one data generation task, write by write, with the       *)
(*               relational and the graph store it fills.                  *)
(*   SpecVirality the product-virality queries of each store on one follow *)
(*               graph.                                                    *)
(*   SpecReads   the generation tasks and one benchmark task together with *)
(*               the three read endpoints of the registry.                 *)
(*   SpecPool    the sub-batch loop of the edge generators: one session    *)
(*               per call, gathered sub-batch by sub-batch.                *)
(*   SpecSocial  concurrent follow_user calls, each on a session of its    *)
(*               own, and the follows rows they commit.                    *)
(*                                                                         *)
(* Time is counted in whole seconds (int(time.time())).  Code between two  *)
(* awaits of a coroutine runs without interleaving (single event loop).    *)
(***************************************************************************)
EXTENDS Integers, Sequences, FiniteSets, TLC

\* ------------------------------------------------------------------ bounds
MaxWorkers == 2      \* start requests handled by the process
MaxClock   == 1      \* seconds of wall clock that are explored
MaxIter    == 2      \* largest `iterations` argument of a benchmark run
MaxFaults  == 1      \* backend invocations that raise or time out in one run
MaxAvg     == 4      \* largest average latency handed to a comparator
MaxCount   == 3      \* largest number of users or products a generation request asks for
MaxGenFaults == 1    \* backend writes that fail in one generation run
MaxFanout  == 2      \* largest max_follows_per_user / max_purchases_per_user of a request
batch_size == 2      \* entities per batch (1000 in the program, scaled down)
MaxUsers   == 3      \* users of a follow graph the virality queries run on
MaxLevel   == 3      \* largest max_level of a virality query
MaxPrice   == 2      \* largest price of the product of a virality query
MaxEdges   == 3      \* edges one batch of users hands to the sub-batch loop
sub_batch_size == 2  \* edge-creation calls per gather (100 in the program, scaled down)
MaxCallers == 2      \* follow_user calls that run concurrently

\* ------------------------------------------------------- program constants
Sentinel == 60       \* latency recorded for a failed invocation
AssumedDuration == 30 \* seconds a task without step counters is assumed to take

\* ------------------------------------------------------------------- state
VARIABLES
    clock,               \* int(time.time()) / datetime.now(), in seconds
    benchmark_results,   \* the registry: task id -> entry (or NoEntry)
    generation_metrics,  \* task id -> status of the stored metrics document
    workers,             \* background tasks added by the start requests
    lastPoll,            \* the document returned by the latest get_task_status
    bench,               \* one DatabaseBenchmark run, invocation by invocation
    cmp,                 \* a pair of average latencies and the comparators' verdicts on it
    gen,                 \* one DataGenerator run with the two stores it writes to
    net,                 \* a follow graph with purchases and the virality rows of each store
    lastRead,            \* the document returned by the latest other read of the registry
    pool,                \* the sub-batch loop of generate_follows / generate_purchases
    social               \* concurrent follow_user calls and the follows they write

\* the state outside the task registry and the benchmark runner
Outside == <<cmp, gen, net, lastRead, pool, social>>

vars == <<clock, benchmark_results, generation_metrics, workers, lastPoll, bench, Outside>>

Kinds == {"generate", "benchmark"}
TaskIds == Kinds \X (0..MaxClock)
NoEntry == [status |-> "absent"]
NoPoll == [task_id |-> <<"none", 0>>, status |-> "none", progress |-> 0]
NoRead == [op |-> "none", doc |-> <<>>]

\* the pairs <<user_id, target_user_id>> a follow request can name; the
\* endpoint and _create_follow turn a self-follow down before the service call
FollowPairs == {q \in (1..MaxUsers) \X (1..MaxUsers) : q[1] # q[2]}

Callers == 1..MaxCallers

NoCall == [pc |-> "none", pair |-> <<0, 0>>, existing_follow |-> FALSE, success |-> FALSE]

\* no follow request under way, an empty follows table
SocialIdle == [users |-> {}, rows |-> [q \in FollowPairs |-> 0], graph |-> {},
               calls |-> [c \in Callers |-> NoCall]]

\* no edge generation under way
PoolIdle == [pc |-> "unused", kind |-> "follows", todo |-> 0, calls |-> <<>>,
             opened |-> {}, closed |-> {}, next_session |-> 1, total |-> 0]

\* exception texts that can escape a task body
ExcTexts == {"connection refused", "mean requires at least one data point"}

\* what the comparison record raises when a total_time is 0
MetricsExcTexts == {"float division by zero"}

TestTypes == {"all", "basic", "product_virality", "user_influence",
              "viral_products", "recommendation_queries", "bogus"}

BaselineOps == <<"user_retrieval", "product_retrieval", "user_follows", "product_purchases">>

\* f"generate_{int(time.time())}" / f"benchmark_{int(time.time())}"
TaskIdFor(kind, now) == <<kind, now>>

Min(a, b) == IF a < b THEN a ELSE b

Range(s) == {s[i] : i \in 1..Len(s)}

\* ------------------------------------------------- DatabaseBenchmark.run_benchmark
\* total_steps as computed up front from test_type (0 when no branch matches)
TotalSteps(test_type) ==
    IF test_type = "all" THEN 6
    ELSE IF test_type = "basic" THEN 4
    ELSE IF test_type \in {"product_virality", "user_influence", "viral_products",
                           "recommendation_queries"} THEN 1
    ELSE 0

\* a runner that starts with the product virality operation
OpsForViralityFirst(test_type) ==
    (IF test_type = "all" \/ test_type = "product_virality" THEN <<"product_virality">> ELSE <<>>)
    \o (IF test_type = "all" \/ test_type = "basic" THEN BaselineOps ELSE <<>>)
    \o (IF test_type = "all" \/ test_type = "user_influence" THEN <<"user_influence">> ELSE <<>>)
    \o (IF test_type = "all" \/ test_type = "viral_products" THEN <<"viral_products">> ELSE <<>>)
    \o (IF test_type = "all" \/ test_type = "recommendation_queries" THEN <<"recommendation_queries">> ELSE <<>>)

\* the operations run_benchmark executes for a test_type, in program order
OpsFor(test_type) ==
    (IF test_type = "all" \/ test_type = "basic" THEN BaselineOps ELSE <<>>)
    \o (IF test_type = "all" \/ test_type = "product_virality" THEN <<"product_virality">> ELSE <<>>)
    \o (IF test_type = "all" \/ test_type = "user_influence" THEN <<"user_influence">> ELSE <<>>)
    \o (IF test_type = "all" \/ test_type = "viral_products" THEN <<"viral_products">> ELSE <<>>)
    \o (IF test_type = "all" \/ test_type = "recommendation_queries" THEN <<"recommendation_queries">> ELSE <<>>)

\* operations whose loops have no try/except: an exception of one invocation
\* (or statistics.mean of an empty list) leaves run_benchmark
Unguarded(op) == op \in Range(BaselineOps) \cup {"recommendation_queries"}

\* ------------------------------------------------------- registry entries
\* optional keys of an entry are sequences: <<>> absent, <<v>> present
NewGenerationEntry(id, now) ==
    [task_id |-> id, status |-> "running",
     message |-> <<"Data generation in progress">>,
     start_time |-> now, progress |-> 0,
     current_step |-> <<>>, total_steps |-> <<>>,
     end_time |-> <<>>, has_results |-> <<>>, results |-> <<>>]

NewBenchmarkEntry(id, now) ==
    [task_id |-> id, status |-> "running",
     message |-> <<"Benchmark in progress with">>,
     start_time |-> now, progress |-> 0,
     current_step |-> <<0>>, total_steps |-> <<1>>,
     end_time |-> <<>>, has_results |-> <<>>, results |-> <<>>]

\* update_progress, the callback _run_benchmark_task hands to the runner
update_progress(entry, current_step, total_steps, operation_details) ==
    [entry EXCEPT !.current_step = <<current_step>>,
                  !.total_steps = <<total_steps>>,
                  !.message = <<"Benchmark in progress: ", operation_details>>]

BenchmarkCompleted(entry, results, now) ==
    [entry EXCEPT !.status = "completed",
                  !.message = <<"Benchmark completed successfully">>,
                  !.results = <<results>>,
                  !.end_time = <<now>>,
                  !.has_results = <<TRUE>>,
                  !.progress = 100]

BenchmarkFailed(entry, e, now) ==
    [entry EXCEPT !.status = "failed",
                  !.message = <<"Benchmark failed: ", e>>,
                  !.end_time = <<now>>,
                  !.has_results = <<FALSE>>,
                  !.progress = 0]

\* the except clause with the exception text left out of the message
GenerationFailedNoText(entry, e) ==
    [entry EXCEPT !.status = "error",
                  !.message = <<"Error">>]

GenerationFailed(entry, e) ==
    [entry EXCEPT !.status = "error",
                  !.message = <<"Error: ", e>>]

\* ------------------------------------------------------- get_task_status
\* a status handler that estimates progress for an id it does not know
TaskStatusViewEstimating(registry, id, now) ==
    IF registry[id] # NoEntry
    THEN [task_id |-> id, status |-> registry[id].status,
          progress |-> IF registry[id].status = "completed" THEN 100 ELSE 0]
    ELSE [task_id |-> id, status |-> "not_found", progress |-> 50]

TaskStatusView(registry, id, now) ==
    IF registry[id] # NoEntry
    THEN LET result == registry[id]
             status == result.status
             progress ==
                 IF status = "completed" THEN 100
                 ELSE IF status = "failed" THEN 0
                 ELSE IF result.current_step # <<>> /\ result.total_steps # <<>>
                      THEN IF result.total_steps[1] > 0
                           THEN Min((result.current_step[1] * 100) \div result.total_steps[1], 99)
                           ELSE 50
                      ELSE Min(((now - result.start_time) * 100) \div AssumedDuration, 99)
         IN  [task_id |-> id, status |-> status, progress |-> progress]
    ELSE [task_id |-> id, status |-> "not_found", progress |-> 0]

\* ------------------------------------------------------ background workers
Unused ==
    [kind |-> "none", task_id |-> <<"none", 0>>, pc |-> "unused", test_type |-> "",
     k |-> 0, current_step |-> 0, total_steps |-> 0, keys |-> <<>>, exc |-> ""]

Slots == 1..MaxWorkers

\* a coroutine that has ended: only its identity and the exception it caught remain
Ended(wk, e) == [Unused EXCEPT !.kind = wk.kind, !.task_id = wk.task_id,
                               !.pc = "done", !.exc = e]

\* BackgroundTasks.add_task appends: the next request takes the first free slot
FreeSlot(w) == workers[w].pc = "unused" /\ \A v \in 1..(w - 1) : workers[v].pc # "unused"

\* the event loop is inside a stretch of code without await
LoopIdle == \A w \in Slots : workers[w].pc # "metrics"

\* ids that a start request has returned to its caller
Returned == {workers[w].task_id : w \in {v \in Slots : workers[v].pc # "unused"}}

GenSteps == <<"users", "products", "follows", "purchases">>

progress_weights(step) == IF step = "users" THEN 40 ELSE 20

RECURSIVE ProgressAfter(_)
ProgressAfter(k) == IF k = 0 THEN 0 ELSE ProgressAfter(k - 1) + progress_weights(GenSteps[k])

\* ------------------------------------------------------------ the requests
Tick ==
    /\ clock < MaxClock
    /\ clock' = clock + 1
    /\ UNCHANGED <<benchmark_results, generation_metrics, workers, lastPoll, bench, Outside>>

generate_data ==
    /\ LoopIdle
    /\ \E w \in Slots :
         /\ FreeSlot(w)
         /\ workers' = [workers EXCEPT ![w] =
                [Unused EXCEPT !.kind = "generate", !.pc = "scheduled",
                               !.task_id = TaskIdFor("generate", clock)]]
    /\ UNCHANGED <<clock, benchmark_results, generation_metrics, lastPoll, bench, Outside>>

run_benchmark(test_type) ==
    /\ LoopIdle
    /\ \E w \in Slots :
         /\ FreeSlot(w)
         /\ workers' = [workers EXCEPT ![w] =
                [Unused EXCEPT !.kind = "benchmark", !.pc = "scheduled",
                               !.test_type = test_type,
                               !.task_id = TaskIdFor("benchmark", clock)]]
    /\ UNCHANGED <<clock, benchmark_results, generation_metrics, lastPoll, bench, Outside>>

get_task_status(id) ==
    /\ LoopIdle
    /\ lastPoll' = TaskStatusView(benchmark_results, id, clock)
    /\ UNCHANGED <<clock, benchmark_results, generation_metrics, workers, bench, Outside>>

\* ------------------------------------------------- the other read endpoints
\* get_benchmark_results: the entry when it is completed, else its status
ResultsView(registry, id) ==
    IF registry[id] # NoEntry /\ registry[id].status = "completed"
    THEN [task_id |-> id, status |-> "completed", results |-> registry[id].results]
    ELSE IF registry[id] # NoEntry
         THEN [task_id |-> id, status |-> registry[id].status, results |-> <<>>]
         ELSE [task_id |-> id, status |-> "not_found", results |-> <<>>]

\* list_benchmarks: the id, status and has_results of every entry
ListView(registry) ==
    {[id |-> id, status |-> registry[id].status,
      has_results |-> registry[id].status = "completed" /\ registry[id].results # <<>>] :
        id \in {i \in TaskIds : registry[i] # NoEntry}}

\* get_benchmark_tasks: the generation tasks that have a metrics document,
\* then the registry entries without one
TasksView(registry, metrics) ==
    {[task_id |-> id, type |-> "generation", status |-> metrics[id]] :
        id \in {i \in TaskIds : metrics[i] # "absent"}}
    \cup {[task_id |-> id, type |-> "benchmark", status |-> registry[id].status] :
        id \in {i \in TaskIds : registry[i] # NoEntry /\ metrics[i] = "absent"}}

get_benchmark_results(id) ==
    /\ LoopIdle
    /\ lastRead' = [op |-> "get_benchmark_results", doc |-> <<ResultsView(benchmark_results, id)>>]
    /\ UNCHANGED <<clock, benchmark_results, generation_metrics, workers, lastPoll, bench,
                   cmp, gen, net, pool, social>>

list_benchmarks ==
    /\ LoopIdle
    /\ lastRead' = [op |-> "list_benchmarks", doc |-> <<ListView(benchmark_results)>>]
    /\ UNCHANGED <<clock, benchmark_results, generation_metrics, workers, lastPoll, bench,
                   cmp, gen, net, pool, social>>

get_benchmark_tasks ==
    /\ LoopIdle
    /\ lastRead' = [op |-> "get_benchmark_tasks",
                    doc |-> <<TasksView(benchmark_results, generation_metrics)>>]
    /\ UNCHANGED <<clock, benchmark_results, generation_metrics, workers, lastPoll, bench,
                   cmp, gen, net, pool, social>>

\* ---------------------------------------------------- _generate_data_task
\* from the start of the task to the await of generate_users
GenBegin(w) ==
    /\ LoopIdle
    /\ workers[w].kind = "generate" /\ workers[w].pc = "scheduled"
    /\ LET id == workers[w].task_id IN
         benchmark_results' = [benchmark_results EXCEPT ![id] =
             [NewGenerationEntry(id, clock) EXCEPT
                 !.message = <<"Generating ", GenSteps[1]>>, !.progress = 0]]
    /\ workers' = [workers EXCEPT ![w].pc = "await", ![w].k = 1]
    /\ UNCHANGED <<clock, generation_metrics, lastPoll, bench, Outside>>

\* the awaited generate_* call returns; the task runs on to its next await
GenStepReturns(w) ==
    /\ LoopIdle
    /\ workers[w].kind = "generate" /\ workers[w].pc = "await"
    /\ LET id == workers[w].task_id
           k == workers[w].k
           entry == benchmark_results[id]
       IN IF k < Len(GenSteps)
          THEN /\ benchmark_results' = [benchmark_results EXCEPT ![id] =
                      [entry EXCEPT !.progress = ProgressAfter(k),
                                    !.message = <<"Generating ", GenSteps[k + 1]>>]]
               /\ workers' = [workers EXCEPT ![w].k = k + 1]
          ELSE /\ benchmark_results' = [benchmark_results EXCEPT ![id] =
                      [entry EXCEPT !.progress = ProgressAfter(k),
                                    !.message = <<"Generated ", GenSteps[k]>>,
                                    !.status = "completed",
                                    !.end_time = <<clock>>,
                                    !.has_results = <<TRUE>>]]
               /\ workers' = [workers EXCEPT ![w].pc = "metrics"]
    /\ UNCHANGED <<clock, generation_metrics, lastPoll, bench, Outside>>

\* the awaited generate_* call raises: the except clause of the task
GenStepRaises(w, e) ==
    /\ LoopIdle
    /\ workers[w].kind = "generate" /\ workers[w].pc = "await"
    /\ LET id == workers[w].task_id IN
         /\ benchmark_results' = [benchmark_results EXCEPT ![id] =
                GenerationFailed(benchmark_results[id], e)]
         /\ generation_metrics' = [generation_metrics EXCEPT ![id] = "error"]
    /\ workers' = [workers EXCEPT ![w] = Ended(workers[w], e)]
    /\ UNCHANGED <<clock, lastPoll, bench, Outside>>

\* after status = "completed": the comparison record and the metrics file
GenMetricsStored(w) ==
    /\ workers[w].kind = "generate" /\ workers[w].pc = "metrics"
    /\ generation_metrics' = [generation_metrics EXCEPT ![workers[w].task_id] = "completed"]
    /\ workers' = [workers EXCEPT ![w] = Ended(workers[w], "")]
    /\ UNCHANGED <<clock, benchmark_results, lastPoll, bench, Outside>>

\* ... or one of its divisions by a total_time of 0, or the file write, raises
GenMetricsRaises(w, e) ==
    /\ workers[w].kind = "generate" /\ workers[w].pc = "metrics"
    /\ LET id == workers[w].task_id IN
         /\ benchmark_results' = [benchmark_results EXCEPT ![id] =
                GenerationFailed(benchmark_results[id], e)]
         /\ generation_metrics' = [generation_metrics EXCEPT ![id] = "error"]
    /\ workers' = [workers EXCEPT ![w] = Ended(workers[w], e)]
    /\ UNCHANGED <<clock, lastPoll, bench, Outside>>

\* ----------------------------------------------------- _run_benchmark_task
\* entry and worker once operation k - 1 is over: the next operation is
\* announced through the callback, or the run returns and the task completes
AfterOperation(entry, wk, k, now) ==
    LET ops == OpsFor(wk.test_type) IN
    IF k <= Len(ops)
    THEN [entry |-> update_progress(entry, wk.current_step + 1, wk.total_steps, ops[k]),
          worker |-> [wk EXCEPT !.pc = "op", !.k = k, !.current_step = wk.current_step + 1]]
    ELSE [entry |-> BenchmarkCompleted(
                        update_progress(entry, wk.total_steps, wk.total_steps,
                                        "All benchmarks completed"),
                        wk.keys, now),
          worker |-> Ended(wk, "")]

\* from the start of the task to the await of _get_sample_users
BenchBegin(w) ==
    /\ LoopIdle
    /\ workers[w].kind = "benchmark" /\ workers[w].pc = "scheduled"
    /\ LET id == workers[w].task_id
           total == TotalSteps(workers[w].test_type)
       IN /\ benchmark_results' = [benchmark_results EXCEPT ![id] =
                 update_progress(NewBenchmarkEntry(id, clock), 0, total, "Starting benchmarks")]
          /\ workers' = [workers EXCEPT ![w].pc = "sampling",
                                        ![w].current_step = 0,
                                        ![w].total_steps = total]
    /\ UNCHANGED <<clock, generation_metrics, lastPoll, bench, Outside>>

\* the sample queries return; without users or products the run returns at once
BenchSampled(w, have_data) ==
    /\ LoopIdle
    /\ workers[w].kind = "benchmark" /\ workers[w].pc = "sampling"
    /\ LET id == workers[w].task_id
           entry == benchmark_results[id]
           nxt == AfterOperation(entry, workers[w], 1, clock)
       IN IF have_data
          THEN /\ benchmark_results' = [benchmark_results EXCEPT ![id] = nxt.entry]
               /\ workers' = [workers EXCEPT ![w] = nxt.worker]
          ELSE /\ benchmark_results' = [benchmark_results EXCEPT ![id] =
                      BenchmarkCompleted(entry, workers[w].keys, clock)]
               /\ workers' = [workers EXCEPT ![w] = Ended(workers[w], "")]
    /\ UNCHANGED <<clock, generation_metrics, lastPoll, bench, Outside>>

\* all invocations of operation k are over and its statistics are stored
BenchOpReturns(w) ==
    /\ LoopIdle
    /\ workers[w].kind = "benchmark" /\ workers[w].pc = "op"
    /\ LET id == workers[w].task_id
           wk == workers[w]
           op == OpsFor(wk.test_type)[wk.k]
           nxt == AfterOperation(benchmark_results[id],
                                 [wk EXCEPT !.keys = Append(wk.keys, op)], wk.k + 1, clock)
       IN /\ benchmark_results' = [benchmark_results EXCEPT ![id] = nxt.entry]
          /\ workers' = [workers EXCEPT ![w] = nxt.worker]
    /\ UNCHANGED <<clock, generation_metrics, lastPoll, bench, Outside>>

\* an exception leaves run_benchmark: the except clause of the task
BenchRaises(w, e) ==
    /\ LoopIdle
    /\ workers[w].kind = "benchmark"
    /\ \/ workers[w].pc = "sampling"
       \/ workers[w].pc = "op" /\ Unguarded(OpsFor(workers[w].test_type)[workers[w].k])
    /\ LET id == workers[w].task_id IN
         benchmark_results' = [benchmark_results EXCEPT ![id] =
             BenchmarkFailed(benchmark_results[id], e, clock)]
    /\ workers' = [workers EXCEPT ![w] = Ended(workers[w], e)]
    /\ UNCHANGED <<clock, generation_metrics, lastPoll, bench, Outside>>

\* ======================================================================
\* One benchmark task, invocation by invocation (DatabaseBenchmark)
\* ======================================================================
Backends == {"postgresql", "neo4j"}

AdvancedOps == {"product_virality", "user_influence", "viral_products"}

\* the latency an invocation that returned is measured at (below the sentinel)
Elapsed == 1

RunnerTask == TaskIdFor("benchmark", 0)

\* the await is wrapped in asyncio.wait_for: only session.run of the three
\* relationship-level operations; result.values() / result.consume() is not
Timed(op, backend, phase) == op \in AdvancedOps /\ backend = "neo4j" /\ phase = "run"

\* the graph-store invocation of these operations is two awaits
TwoAwaits(op, backend) == op \in AdvancedOps /\ backend = "neo4j"

\* _benchmark_product_virality_neo4j and _benchmark_user_influence_neo4j catch
\* every exception themselves and return the sentinel to the loop
HelperSwallows(op, backend) ==
    op \in {"product_virality", "user_influence"} /\ backend = "neo4j"

RECURSIVE SumSeq(_)
SumSeq(s) == IF s = <<>> THEN 0 ELSE Head(s) + SumSeq(Tail(s))

\* statistics.mean / min / max / statistics.median of a non-empty list;
\* a quotient is kept as <<numerator, denominator>>
Stats(times) ==
    LET n == Len(times)
        sorted == SortSeq(times, LAMBDA a, b : a < b)
    IN [avg |-> <<SumSeq(times), n>>,
        min |-> sorted[1],
        max |-> sorted[n],
        median |-> IF n % 2 = 1 THEN <<sorted[(n + 1) \div 2], 1>>
                   ELSE <<sorted[n \div 2] + sorted[n \div 2 + 1], 2>>]

ZeroStats == [avg |-> <<0, 1>>, min |-> 0, max |-> 0, median |-> <<0, 1>>]

\* "statistics.mean(t) if t else 0"
GuardedStats(times) == IF times = <<>> THEN ZeroStats ELSE Stats(times)

\* the entry of self.results / self.data_metadata an operation stores after
\* its two loops; optional parts are sequences (<<>> absent)
OperationResult(op, pg_times, neo4j_times, pg_errors, neo4j_errors) ==
    IF op = "user_influence"
    THEN [op |-> op,
          postgresql |-> Stats(IF pg_times = <<>> THEN <<Sentinel>> ELSE pg_times),
          neo4j |-> Stats(IF neo4j_times = <<>> THEN <<Sentinel>> ELSE neo4j_times),
          errors |-> <<pg_errors, neo4j_errors>>, times |-> <<>>]
    ELSE IF op = "product_virality"
    THEN [op |-> op, postgresql |-> GuardedStats(pg_times),
          neo4j |-> GuardedStats(neo4j_times),
          errors |-> <<pg_errors, neo4j_errors>>, times |-> <<pg_times, neo4j_times>>]
    ELSE IF op = "viral_products"
    THEN [op |-> op, postgresql |-> GuardedStats(pg_times),
          neo4j |-> GuardedStats(neo4j_times),
          errors |-> <<pg_errors, neo4j_errors>>, times |-> <<>>]
    ELSE [op |-> op, postgresql |-> Stats(pg_times), neo4j |-> Stats(neo4j_times),
          errors |-> <<>>, times |-> <<>>]

\* statistics.mean raises StatisticsError on an empty list
StoreRaises(op, pg_times, neo4j_times) ==
    Unguarded(op) /\ (pg_times = <<>> \/ neo4j_times = <<>>)

BenchIdle ==
    [pc |-> "unused", test_type |-> "", iterations |-> 0, k |-> 0,
     backend |-> "postgresql", i |-> 0, phase |-> "run",
     current_step |-> 0, total_steps |-> 0,
     pg_times |-> <<>>, neo4j_times |-> <<>>, pg_errors |-> 0, neo4j_errors |-> 0,
     results |-> <<>>, event |-> "none", awaits |-> 0, faults |-> 0, exc |-> ""]

CurrentOp(b) == OpsFor(b.test_type)[b.k]

RunnerEntry == benchmark_results[RunnerTask]

RunnerFrame == <<clock, generation_metrics, workers, lastPoll, Outside>>

\* the runner announces operation k and enters its PostgreSQL loop, or, after
\* the last operation, reports the summary and returns to the task
EnterOperation(b, k) ==
    IF k <= Len(OpsFor(b.test_type))
    THEN [b EXCEPT !.k = k, !.current_step = b.current_step + 1,
                   !.backend = "postgresql", !.i = 0, !.phase = "run",
                   !.pg_times = <<>>, !.neo4j_times = <<>>,
                   !.pg_errors = 0, !.neo4j_errors = 0,
                   !.pc = IF b.iterations > 0 THEN "call" ELSE "loops_done"]
    ELSE [b EXCEPT !.k = k, !.pc = "done"]

\* the entry after the callbacks (and the final update) EnterOperation makes
EntryOnEnter(entry, b, k, now) ==
    IF k <= Len(OpsFor(b.test_type))
    THEN update_progress(entry, b.current_step + 1, b.total_steps, OpsFor(b.test_type)[k])
    ELSE BenchmarkCompleted(
             update_progress(entry, b.total_steps, b.total_steps, "All benchmarks completed"),
             [j \in 1..Len(b.results) |-> b.results[j].op], now)

\* one sample has been appended for the current backend: next iteration, next
\* loop, or the end of both loops
NextInvocation(b) ==
    IF b.i + 1 < b.iterations
    THEN [b EXCEPT !.i = b.i + 1, !.phase = "run"]
    ELSE IF b.backend = "postgresql"
         THEN [b EXCEPT !.backend = "neo4j", !.i = 0, !.phase = "run"]
         ELSE [b EXCEPT !.i = b.i + 1, !.pc = "loops_done"]

AppendSample(b, t) ==
    IF b.backend = "postgresql"
    THEN [b EXCEPT !.pg_times = Append(b.pg_times, t)]
    ELSE [b EXCEPT !.neo4j_times = Append(b.neo4j_times, t)]

CountError(b) ==
    IF b.backend = "postgresql"
    THEN [b EXCEPT !.pg_errors = b.pg_errors + 1]
    ELSE [b EXCEPT !.neo4j_errors = b.neo4j_errors + 1]

\* what the loop of an operation does with an exception e of the invocation
\* (a TimeoutError included): the except clause of the loop, if it has one
OnException(b, e) ==
    LET op == CurrentOp(b) IN
    IF Unguarded(op) THEN [b EXCEPT !.pc = "done", !.exc = e]
    ELSE IF HelperSwallows(op, b.backend) THEN NextInvocation(AppendSample(b, Sentinel))
    ELSE NextInvocation(AppendSample(CountError(b), Sentinel))

\* _run_benchmark_task up to the await of the sample queries
RunnerBegin ==
    /\ bench.pc = "scheduled"
    /\ LET total == TotalSteps(bench.test_type) IN
         /\ benchmark_results' = [benchmark_results EXCEPT ![RunnerTask] =
                update_progress(NewBenchmarkEntry(RunnerTask, clock), 0, total,
                                "Starting benchmarks")]
         /\ bench' = [bench EXCEPT !.pc = "sampling", !.current_step = 0,
                                   !.total_steps = total]
    /\ UNCHANGED RunnerFrame

\* _get_sample_users and _get_sample_products return
RunnerSampled(have_data) ==
    /\ bench.pc = "sampling"
    /\ LET b == [bench EXCEPT !.awaits = bench.awaits + 1, !.event = "returned"] IN
       IF have_data
       THEN /\ bench' = EnterOperation(b, 1)
            /\ benchmark_results' = [benchmark_results EXCEPT ![RunnerTask] =
                   EntryOnEnter(RunnerEntry, b, 1, clock)]
       ELSE /\ bench' = [b EXCEPT !.pc = "done"]
            /\ benchmark_results' = [benchmark_results EXCEPT ![RunnerTask] =
                   BenchmarkCompleted(RunnerEntry, <<>>, clock)]
    /\ UNCHANGED RunnerFrame

\* a sample query raises: nothing catches it before the task's except clause
RunnerSampleRaises(e) ==
    /\ bench.pc = "sampling"
    /\ bench.faults < MaxFaults
    /\ bench' = [bench EXCEPT !.awaits = bench.awaits + 1, !.event = "raised",
                              !.faults = bench.faults + 1, !.pc = "done", !.exc = e]
    /\ benchmark_results' = [benchmark_results EXCEPT ![RunnerTask] =
           BenchmarkFailed(RunnerEntry, e, clock)]
    /\ UNCHANGED RunnerFrame

\* the awaited backend invocation returns
CallReturns ==
    /\ bench.pc = "call"
    /\ LET b == [bench EXCEPT !.awaits = bench.awaits + 1, !.event = "returned"] IN
       bench' = IF TwoAwaits(CurrentOp(b), b.backend) /\ b.phase = "run"
                THEN [b EXCEPT !.phase = "consume"]
                ELSE NextInvocation(AppendSample(b, Elapsed))
    /\ UNCHANGED <<benchmark_results, clock, generation_metrics, workers, lastPoll, Outside>>

\* the awaited backend invocation raises e
CallRaises(e) ==
    /\ bench.pc = "call"
    /\ bench.faults < MaxFaults
    /\ LET b == [bench EXCEPT !.awaits = bench.awaits + 1, !.event = "raised",
                              !.faults = bench.faults + 1]
           after == OnException(b, e)
       IN /\ bench' = after
          /\ benchmark_results' = [benchmark_results EXCEPT ![RunnerTask] =
                 IF after.exc # "" THEN BenchmarkFailed(RunnerEntry, e, clock)
                 ELSE update_progress(RunnerEntry, b.current_step, b.total_steps,
                                      "Error in query")]
    /\ UNCHANGED RunnerFrame

\* the timer of asyncio.wait_for fires before the invocation returns
CallTimesOut ==
    /\ bench.pc = "call"
    /\ Timed(CurrentOp(bench), bench.backend, bench.phase)
    /\ LET b == [bench EXCEPT !.awaits = bench.awaits + 1, !.event = "timeout"] IN
         /\ bench' = OnException(b, "query timed out")
         /\ benchmark_results' = [benchmark_results EXCEPT ![RunnerTask] =
                update_progress(RunnerEntry, b.current_step, b.total_steps,
                                "Error in query")]
    /\ UNCHANGED RunnerFrame

\* after both loops: the statistics of the operation are stored, then the next
\* operation starts or run_benchmark returns and the task completes
StoreResults ==
    /\ bench.pc = "loops_done"
    /\ LET op == CurrentOp(bench)
           e == "mean requires at least one data point"
       IN IF StoreRaises(op, bench.pg_times, bench.neo4j_times)
          THEN /\ bench' = [bench EXCEPT !.pc = "done", !.exc = e, !.event = "none"]
               /\ benchmark_results' = [benchmark_results EXCEPT ![RunnerTask] =
                      BenchmarkFailed(RunnerEntry, e, clock)]
          ELSE LET b == [bench EXCEPT !.event = "none", !.results =
                            Append(bench.results,
                                   OperationResult(op, bench.pg_times, bench.neo4j_times,
                                                   bench.pg_errors, bench.neo4j_errors))]
               IN /\ bench' = EnterOperation(b, bench.k + 1)
                  /\ benchmark_results' = [benchmark_results EXCEPT ![RunnerTask] =
                         EntryOnEnter(RunnerEntry, b, bench.k + 1, clock)]
    /\ UNCHANGED RunnerFrame

\* ======================================================================
\* The comparators of two average latencies
\* ======================================================================
\* a quotient is kept as <<numerator, denominator>>; a division by zero
\* that the code guards with float('inf') as <<1, 0>>
Quotient(n, d) == IF d > 0 THEN <<n, d>> ELSE <<1, 0>>

Reciprocal(q) == <<q[2], q[1]>>

\* compare_benchmarks: the entry of comparison["operations"], <<>> when the
\* truthiness test on the two averages skips the operation
ComparisonOf(pg_avg, neo4j_avg) ==
    IF pg_avg # 0 /\ neo4j_avg # 0
    THEN LET ratio == Quotient(pg_avg, neo4j_avg)
             faster == IF neo4j_avg < pg_avg THEN "Neo4j" ELSE "PostgreSQL"
             factor == IF faster = "Neo4j" THEN ratio ELSE Reciprocal(ratio)
         IN <<[faster |-> faster, factor |-> factor]>>
    ELSE <<>>

\* _print_benchmark_summary: the line "<faster> is <factor>x faster"
SummaryOf(pg_avg, neo4j_avg) ==
    IF pg_avg # 0 /\ neo4j_avg # 0
    THEN LET ratio == Quotient(pg_avg, neo4j_avg)
             faster == IF neo4j_avg < pg_avg THEN "Neo4j" ELSE "PostgreSQL"
             factor == IF faster = "Neo4j" THEN ratio ELSE Reciprocal(ratio)
         IN <<[faster |-> faster, factor |-> factor]>>
    ELSE <<>>

\* run_comparative_test: "faster" and "speedup" of the test result
ComparativeResult(postgres_avg, neo4j_avg) ==
    IF postgres_avg < neo4j_avg
    THEN <<[faster |-> "PostgreSQL", factor |-> <<neo4j_avg, postgres_avg>>]>>
    ELSE <<[faster |-> "Neo4j", factor |-> <<postgres_avg, neo4j_avg>>]>>

CmpIdle == [pg_avg |-> 0, neo4j_avg |-> 0,
            comparison |-> <<>>, summary |-> <<>>, test_result |-> <<>>]

Service == <<clock, benchmark_results, generation_metrics, workers, lastPoll, bench, gen, net, lastRead, pool, social>>

compare_benchmarks ==
    /\ cmp.comparison = <<>>
    /\ cmp' = [cmp EXCEPT !.comparison = ComparisonOf(cmp.pg_avg, cmp.neo4j_avg)]
    /\ UNCHANGED Service

print_benchmark_summary ==
    /\ cmp.summary = <<>>
    /\ cmp' = [cmp EXCEPT !.summary = SummaryOf(cmp.pg_avg, cmp.neo4j_avg)]
    /\ UNCHANGED Service

run_comparative_test ==
    /\ cmp.test_result = <<>>
    /\ cmp' = [cmp EXCEPT !.test_result = ComparativeResult(cmp.pg_avg, cmp.neo4j_avg)]
    /\ UNCHANGED Service

\* ======================================================================
\* One data generation task, write by write (DataGenerator and the services)
\* ======================================================================
EntityKinds == {"users", "products"}

GenTask == TaskIdFor("generate", 0)

\* str(db_user.id): the identifier under which the graph store keeps a node
Str(id) == <<"str", id>>

\* the tables whose rows carry a unique column (User.email)
HasUniqueColumn(kind) == kind = "users"

GenIdle ==
    [pc |-> "unused", kind |-> "users",
     requested |-> [k \in EntityKinds |-> 0],
     max_follows |-> 1, max_purchases |-> 1,
     made |-> 0, batch |-> 0, committed |-> FALSE, created |-> <<>>,
     ids |-> [k \in EntityKinds |-> <<>>],
     rel |-> [k \in EntityKinds |-> {}],
     graph |-> [k \in EntityKinds |-> {}],
     next_id |-> [k \in EntityKinds |-> 1],
     count |-> [k \in {"users", "products", "follows", "purchases"} |-> 0],
     timed |-> [k \in EntityKinds |-> 0],
     errors |-> [postgresql |-> 0, neo4j |-> 0],
     attempted |-> 0, faults |-> 0,
     cursor |-> 0, pending |-> <<>>,
     rel_follows |-> {}, graph_follows |-> {},
     rel_purchases |-> {}, graph_purchases |-> {}]

\* the follow graph the virality queries run on
NetUsers == 1..MaxUsers

\* the follow edges <<follower, followed>> a graph can hold (no self-follow)
FollowEdges == {e \in NetUsers \X NetUsers : e[1] # e[2]}

\* the product a virality query is asked about: no row / node with its id,
\* or the row and node with its name, category and price
NoProduct == [present |-> FALSE, name |-> "", category |-> "", price |-> 0]

Products == {NoProduct} \cup {[present |-> TRUE, name |-> "name", category |-> "category",
                               price |-> price] : price \in 1..MaxPrice}

NetIdle == [follows |-> {}, buyers |-> {}, max_level |-> 1, product |-> NoProduct,
            pg_rows |-> <<>>, neo4j_rows |-> <<>>,
            pg_virality |-> <<>>, neo4j_virality |-> <<>>]

GenFrame == <<clock, generation_metrics, workers, lastPoll, bench, cmp, net, lastRead, pool, social>>

\* a batch loop that hands over the full batches only
NextBatchFullOnly(g) ==
    IF g.requested[g.kind] - g.made >= batch_size THEN batch_size ELSE 0

\* the size of the batch generate_users / generate_products hands over next:
\* count // batch_size full batches, then the remainder
NextBatch(g) == Min(batch_size, g.requested[g.kind] - g.made)

\* the identifiers a commit of n new rows allocates
Allocated(g, n) == [j \in 1..n |-> g.next_id[g.kind] + j - 1]

\* the rows of a batch are committed to the relational store
CommitRows(g, n) ==
    [g EXCEPT !.rel[g.kind] = @ \cup Range(Allocated(g, n)),
              !.next_id[g.kind] = @ + n]

\* the batch (or the fallback over it) is over: created_users are appended to
\* the identifier list and the two timings are accumulated
BatchOver(g, created) ==
    [g EXCEPT !.ids[g.kind] = @ \o created,
              !.count[g.kind] = @ + Len(created),
              !.timed[g.kind] = @ + 1]

\* _generate_data_task up to the first backend write of generate_users
GenTaskBegin ==
    /\ gen.pc = "scheduled"
    /\ benchmark_results' = [benchmark_results EXCEPT ![GenTask] =
           [NewGenerationEntry(GenTask, clock) EXCEPT
               !.message = <<"Generating ", "users">>, !.progress = 0]]
    /\ gen' = [gen EXCEPT !.pc = "entities", !.kind = "users", !.made = 0]
    /\ UNCHANGED GenFrame

\* create_users_batch / create_products_batch return: both stores hold the batch
BatchCreated ==
    /\ gen.pc = "entities" /\ NextBatch(gen) > 0
    /\ LET n == NextBatch(gen)
           g == [CommitRows(gen, n) EXCEPT
                    !.graph[gen.kind] = @ \cup {Str(id) : id \in Range(Allocated(gen, n))},
                    !.made = @ + n, !.attempted = @ + n]
       IN gen' = BatchOver(g, Allocated(gen, n))
    /\ UNCHANGED <<benchmark_results, GenFrame>>

\* the batch call raises, in the relational commit (nothing is written) or in
\* the graph transaction after the relational commit (the rows stay): both
\* error counters grow by 1 and the per-entity fallback starts
BatchFails(after_commit) ==
    /\ gen.pc = "entities" /\ NextBatch(gen) > 0
    /\ gen.faults < MaxGenFaults
    /\ LET n == NextBatch(gen)
           g == IF after_commit THEN CommitRows(gen, n) ELSE gen
       IN gen' = [g EXCEPT !.pc = "fallback", !.batch = n, !.made = @ + n,
                           !.attempted = @ + n,
                           !.committed = after_commit, !.faults = @ + 1,
                           !.created = <<>>,
                           !.errors = [postgresql |-> @.postgresql + 1,
                                       neo4j |-> @.neo4j + 1]]
    /\ UNCHANGED <<benchmark_results, GenFrame>>

\* a fallback loop that gives the batch up at the first entity that fails
FallbackNextStopsOnFailure(g, created) ==
    LET h == [g EXCEPT !.batch = IF created = <<>> THEN 0 ELSE @ - 1,
                       !.created = @ \o created] IN
    IF h.batch = 0
    THEN [BatchOver([h EXCEPT !.created = <<>>], h.created) EXCEPT !.pc = "entities"]
    ELSE h

\* one entity of the fallback is over; after the last one the batch is over
FallbackNext(g, created) ==
    LET h == [g EXCEPT !.batch = @ - 1, !.created = @ \o created] IN
    IF h.batch = 0
    THEN [BatchOver([h EXCEPT !.created = <<>>], h.created) EXCEPT !.pc = "entities"]
    ELSE h

\* create_user / create_product succeeds in both stores
FallbackCreated ==
    /\ gen.pc = "fallback"
    /\ ~(HasUniqueColumn(gen.kind) /\ gen.committed)
    /\ LET id == gen.next_id[gen.kind]
           g == [CommitRows(gen, 1) EXCEPT !.graph[gen.kind] = @ \cup {Str(id)}]
       IN gen' = FallbackNext(g, <<id>>)
    /\ UNCHANGED <<benchmark_results, GenFrame>>

\* create_user / create_product raises in the relational commit: a duplicate
\* of a row the failed batch left behind (counted for the relational store
\* only) or another error (counted for both stores)
FallbackCommitFails(duplicate) ==
    /\ gen.pc = "fallback"
    /\ duplicate <=> (HasUniqueColumn(gen.kind) /\ gen.committed)
    /\ gen' = FallbackNext(
                 [gen EXCEPT !.errors =
                     [postgresql |-> @.postgresql + 1,
                      neo4j |-> IF duplicate THEN @.neo4j ELSE @.neo4j + 1]],
                 <<>>)
    /\ UNCHANGED <<benchmark_results, GenFrame>>

\* create_user / create_product raises in the graph write, after the
\* relational commit: the row stays, the entity is not reported as created
FallbackMirrorFails ==
    /\ gen.pc = "fallback"
    /\ ~(HasUniqueColumn(gen.kind) /\ gen.committed)
    /\ gen' = FallbackNext(
                 [CommitRows(gen, 1) EXCEPT !.errors =
                     [postgresql |-> @.postgresql + 1, neo4j |-> @.neo4j + 1]],
                 <<>>)
    /\ UNCHANGED <<benchmark_results, GenFrame>>

\* generate_users returns; the task reports it and calls generate_products
UsersGenerated ==
    /\ gen.pc = "entities" /\ gen.kind = "users" /\ NextBatch(gen) = 0
    /\ gen' = [gen EXCEPT !.kind = "products", !.made = 0]
    /\ benchmark_results' = [benchmark_results EXCEPT ![GenTask] =
           [@ EXCEPT !.progress = ProgressAfter(1),
                     !.message = <<"Generating ", GenSteps[2]>>]]
    /\ UNCHANGED GenFrame

\* generate_products returns; the task reports it and calls generate_follows
ProductsGenerated ==
    /\ gen.pc = "entities" /\ gen.kind = "products" /\ NextBatch(gen) = 0
    /\ gen' = [gen EXCEPT !.pc = "follows", !.cursor = 0, !.pending = <<>>]
    /\ benchmark_results' = [benchmark_results EXCEPT ![GenTask] =
           [@ EXCEPT !.progress = ProgressAfter(2),
                     !.message = <<"Generating ", GenSteps[3]>>]]
    /\ UNCHANGED GenFrame

RECURSIVE SeqOf(_)
\* the elements of a finite set of numbers in increasing order
SeqOf(S) == IF S = {} THEN <<>>
            ELSE LET m == CHOOSE x \in S : \A y \in S : x <= y
                 IN <<m>> \o SeqOf(S \ {m})

\* the slice self.user_ids[i:i+batch_size] the edge loops work on next
BatchUsers(g) ==
    SubSeq(g.ids["users"], g.cursor + 1, Min(g.cursor + batch_size, Len(g.ids["users"])))

\* potential_follows without the exclusion of the follower
PotentialFollowsAnyone(user_ids, user_id) == Range(user_ids)

\* potential_follows: every generated user but the follower itself
PotentialFollows(user_ids, user_id) == {u \in Range(user_ids) : u # user_id}

\* a follower whose num_follows may also be drawn as 0
FollowChoicesMaybeNone(g, user_id) ==
    {F \in SUBSET PotentialFollows(g.ids["users"], user_id) :
        Cardinality(F) <= Min(g.max_follows, Len(g.ids["users"]) - 1)}

\* the samples random.sample can draw for one follower: num_follows is drawn
\* from 1..min(max_follows_per_user, len(user_ids) - 1)
FollowChoices(g, user_id) ==
    {F \in SUBSET PotentialFollows(g.ids["users"], user_id) :
        /\ Cardinality(F) >= 1
        /\ Cardinality(F) <= Min(g.max_follows, Len(g.ids["users"]) - 1)}

\* the samples for one buyer: num_purchases is drawn from 0..max_purchases_per_user
PurchaseChoices(g, user_id) ==
    {P \in SUBSET Range(g.ids["products"]) : Cardinality(P) <= g.max_purchases}

RECURSIVE PairsOf(_, _)
\* batch_follows / batch_purchases: for each user of the slice, in order, the
\* pairs (user, target) of its sample
PairsOf(users, plan) ==
    IF users = <<>> THEN <<>>
    ELSE LET u == Head(users)
             targets == SeqOf(plan[u])
         IN [j \in 1..Len(targets) |-> <<u, targets[j]>>] \o PairsOf(Tail(users), plan)

\* generate_follows returns at once with fewer than two users
TooFewUsers(g) == Len(g.ids["users"]) < 2

\* generate_follows draws the samples of the next slice of users
PlanFollows ==
    /\ gen.pc = "follows" /\ gen.pending = <<>>
    /\ ~TooFewUsers(gen) /\ gen.cursor < Len(gen.ids["users"])
    /\ LET users == BatchUsers(gen) IN
       \E plan \in [Range(users) -> SUBSET Range(gen.ids["users"])] :
          /\ \A u \in Range(users) : plan[u] \in FollowChoices(gen, u)
          /\ gen' = [gen EXCEPT !.pending = PairsOf(users, plan),
                                !.cursor = @ + Len(users)]
    /\ UNCHANGED <<benchmark_results, GenFrame>>

\* the nodes a MATCH on the two identifier strings finds
NodesExist(g, kind_a, a, kind_b, b) ==
    Str(a) \in g.graph[kind_a] /\ Str(b) \in g.graph[kind_b]

\* _create_follow for the next pair of batch_follows, with follow_user inside.
\* outcome: "ok", "rel_fails" (the relational commit raises) or "graph_fails"
\* (the graph write raises after the relational commit).  The call answers
\* True only when the MERGE returned the relationship; only True is counted.
FollowResult(g, follower_id, followed_id, outcome) ==
    IF follower_id = followed_id THEN [g |-> g, success |-> FALSE]
    ELSE IF ~(follower_id \in g.rel["users"] /\ followed_id \in g.rel["users"])
    THEN [g |-> g, success |-> FALSE]
    ELSE IF outcome = "rel_fails" /\ <<follower_id, followed_id>> \notin g.rel_follows
    THEN [g |-> g, success |-> FALSE]
    ELSE LET h == [g EXCEPT !.rel_follows = @ \cup {<<follower_id, followed_id>>}] IN
         IF outcome = "graph_fails" \/ ~NodesExist(g, "users", follower_id, "users", followed_id)
         THEN [g |-> h, success |-> FALSE]
         ELSE [g |-> [h EXCEPT !.graph_follows =
                          @ \cup {<<Str(follower_id), Str(followed_id)>>}],
               success |-> TRUE]

CreateFollow(outcome) ==
    /\ gen.pc = "follows" /\ gen.pending # <<>>
    /\ outcome # "ok" => gen.faults < MaxGenFaults
    /\ LET pair == Head(gen.pending)
           r == FollowResult(gen, pair[1], pair[2], outcome)
       IN gen' = [r.g EXCEPT !.pending = Tail(@), !.attempted = @ + 1,
                             !.faults = IF outcome = "ok" THEN @ ELSE @ + 1,
                             !.count["follows"] = IF r.success THEN @ + 1 ELSE @]
    /\ UNCHANGED <<benchmark_results, GenFrame>>

\* generate_follows returns; the task reports it and calls generate_purchases
FollowsGenerated ==
    /\ gen.pc = "follows" /\ gen.pending = <<>>
    /\ TooFewUsers(gen) \/ gen.cursor >= Len(gen.ids["users"])
    /\ gen' = [gen EXCEPT !.pc = "purchases", !.cursor = 0]
    /\ benchmark_results' = [benchmark_results EXCEPT ![GenTask] =
           [@ EXCEPT !.progress = ProgressAfter(3),
                     !.message = <<"Generating ", GenSteps[4]>>]]
    /\ UNCHANGED GenFrame

\* generate_purchases draws the samples of the next slice of users
PlanPurchases ==
    /\ gen.pc = "purchases" /\ gen.pending = <<>>
    /\ gen.cursor < Len(gen.ids["users"])
    /\ LET users == BatchUsers(gen) IN
       \E plan \in [Range(users) -> SUBSET Range(gen.ids["products"])] :
          /\ \A u \in Range(users) : plan[u] \in PurchaseChoices(gen, u)
          /\ gen' = [gen EXCEPT !.pending = PairsOf(users, plan),
                                !.cursor = @ + Len(users)]
    /\ UNCHANGED <<benchmark_results, GenFrame>>

\* _create_purchase with create_purchase inside: the purchase is returned (and
\* counted) unless a row is missing or a write raises; a CREATE whose MATCH
\* finds no nodes writes nothing and raises nothing
PurchaseResult(g, user_id, product_id, outcome) ==
    IF ~(user_id \in g.rel["users"] /\ product_id \in g.rel["products"])
    THEN [g |-> g, success |-> FALSE]
    ELSE IF outcome = "rel_fails" THEN [g |-> g, success |-> FALSE]
    ELSE LET h == [g EXCEPT !.rel_purchases = @ \cup {<<user_id, product_id>>}] IN
         IF outcome = "graph_fails" THEN [g |-> h, success |-> FALSE]
         ELSE IF ~NodesExist(g, "users", user_id, "products", product_id)
         THEN [g |-> h, success |-> TRUE]
         ELSE [g |-> [h EXCEPT !.graph_purchases =
                          @ \cup {<<Str(user_id), Str(product_id)>>}],
               success |-> TRUE]

CreatePurchase(outcome) ==
    /\ gen.pc = "purchases" /\ gen.pending # <<>>
    /\ outcome # "ok" => gen.faults < MaxGenFaults
    /\ LET pair == Head(gen.pending)
           r == PurchaseResult(gen, pair[1], pair[2], outcome)
       IN gen' = [r.g EXCEPT !.pending = Tail(@), !.attempted = @ + 1,
                             !.faults = IF outcome = "ok" THEN @ ELSE @ + 1,
                             !.count["purchases"] = IF r.success THEN @ + 1 ELSE @]
    /\ UNCHANGED <<benchmark_results, GenFrame>>

\* the comparison record divides the users' and the products' total_time of
\* one store by that of the other: a kind without a timed batch has total_time 0
ComparisonRaises(g) == g.timed["users"] = 0 \/ g.timed["products"] = 0

\* generate_purchases returns: the task sets "completed", then builds the
\* comparison record and stores the metrics, or lands in its except clause
PurchasesGenerated ==
    /\ gen.pc = "purchases" /\ gen.pending = <<>>
    /\ gen.cursor >= Len(gen.ids["users"])
    /\ gen' = [gen EXCEPT !.pc = "done"]
    /\ LET completed == [benchmark_results[GenTask] EXCEPT
                            !.progress = ProgressAfter(4),
                            !.message = <<"Generated ", GenSteps[4]>>,
                            !.status = "completed",
                            !.end_time = <<clock>>,
                            !.has_results = <<TRUE>>]
       IN IF ComparisonRaises(gen)
          THEN /\ benchmark_results' = [benchmark_results EXCEPT ![GenTask] =
                      GenerationFailed(completed, "float division by zero")]
               /\ generation_metrics' = [generation_metrics EXCEPT ![GenTask] = "error"]
          ELSE /\ benchmark_results' = [benchmark_results EXCEPT ![GenTask] = completed]
               /\ generation_metrics' = [generation_metrics EXCEPT ![GenTask] = "completed"]
    /\ UNCHANGED <<clock, workers, lastPoll, bench, cmp, net, lastRead, pool, social>>

\* ----------------------------------------------------------- SpecGenerate
InitGenerate ==
    /\ clock = 0
    /\ benchmark_results = [id \in TaskIds |-> NoEntry]
    /\ generation_metrics = [id \in TaskIds |-> "absent"]
    /\ workers = [w \in Slots |-> Unused]
    /\ lastPoll = NoPoll
    /\ bench = BenchIdle
    /\ cmp = CmpIdle
    /\ net = NetIdle
    /\ lastRead = NoRead
    /\ pool = PoolIdle
    /\ social = SocialIdle
    /\ \E users, products \in 0..MaxCount, max_follows, max_purchases \in 1..MaxFanout :
         gen = [GenIdle EXCEPT !.pc = "scheduled",
                               !.requested = [users |-> users, products |-> products],
                               !.max_follows = max_follows,
                               !.max_purchases = max_purchases]

NextGenerate ==
    \/ GenTaskBegin
    \/ BatchCreated
    \/ \E after_commit \in BOOLEAN : BatchFails(after_commit)
    \/ FallbackCreated
    \/ \E duplicate \in BOOLEAN : FallbackCommitFails(duplicate)
    \/ FallbackMirrorFails
    \/ UsersGenerated
    \/ ProductsGenerated
    \/ PlanFollows
    \/ \E outcome \in {"ok", "rel_fails", "graph_fails"} : CreateFollow(outcome)
    \/ FollowsGenerated
    \/ PlanPurchases
    \/ \E outcome \in {"ok", "rel_fails", "graph_fails"} : CreatePurchase(outcome)
    \/ PurchasesGenerated

SpecGenerate == InitGenerate /\ [][NextGenerate]_vars

\* ======================================================================
\* The product-virality query of each store, on one follow graph
\* ======================================================================
\* JOIN follows f ON pn.user_id = f.followed_id: the followers of a set of users
FollowersOf(follows, S) == {e[1] : e \in {f \in follows : f[2] \in S}}

RECURSIVE product_network(_, _, _, _)
\* WITH RECURSIVE product_network: the users of each level; level 1 holds the
\* purchasers, level + 1 the followers of the users of a level below max_level
product_network(follows, buyers, max_level, level) ==
    IF level = 1 THEN buyers
    ELSE IF level - 1 < max_level
         THEN FollowersOf(follows, product_network(follows, buyers, max_level, level - 1))
         ELSE {}

\* SELECT level, COUNT(DISTINCT user_id) ... GROUP BY level: a row for each
\* level that has users
PostgresViralityRows(follows, buyers, max_level) ==
    {<<level, Cardinality(product_network(follows, buyers, max_level, level))>> :
        level \in {l \in 1..max_level :
                      product_network(follows, buyers, max_level, l) # {}}}

\* (follower)-[:FOLLOWS*1..2]->(buyer) with length(path) <= level: the pairs
\* <<follower, buyer>> joined by a path of 1 or 2 follow edges within the level
FollowPaths(follows, level) ==
    {q \in NetUsers \X NetUsers :
        \/ 1 <= level /\ q \in follows
        \/ 2 <= level /\ \E m \in NetUsers : <<q[1], m>> \in follows /\ <<m, q[2]>> \in follows}

\* the rows of the Cypher query: for each level of range(1, max_level) the
\* distinct buyers (level 1) or followers (other levels) of the matched
\* paths whose end is a direct buyer; an OPTIONAL MATCH without match counts 0
Neo4jViralityRows(follows, buyers, max_level) ==
    {<<level,
       LET matched == {q \in FollowPaths(follows, level) : q[2] \in buyers}
       IN Cardinality({(IF level = 1 THEN q[2] ELSE q[1]) : q \in matched})>> :
        level \in 1..max_level}

\* _benchmark_product_virality runs the recursive SQL query
RunPostgresVirality ==
    /\ net.pg_rows = <<>>
    /\ net' = [net EXCEPT !.pg_rows =
                  <<PostgresViralityRows(net.follows, net.buyers, net.max_level)>>]
    /\ UNCHANGED <<clock, benchmark_results, generation_metrics, workers, lastPoll, bench, cmp, gen, lastRead, pool, social>>

\* _benchmark_product_virality_neo4j runs the Cypher query
RunNeo4jVirality ==
    /\ net.neo4j_rows = <<>>
    /\ net' = [net EXCEPT !.neo4j_rows =
                  <<Neo4jViralityRows(net.follows, net.buyers, net.max_level)>>]
    /\ UNCHANGED <<clock, benchmark_results, generation_metrics, workers, lastPoll, bench, cmp, gen, lastRead, pool, social>>

RECURSIVE followers(_, _, _)
\* WITH RECURSIVE followers: the follower_id values of the rows of a level;
\* level 1 holds the direct followers of the purchasers, level + 1 the
\* followers of the follower_id values of a level below :level
followers(follows, buyers, level) ==
    IF level = 1 THEN FollowersOf(follows, buyers)
    ELSE FollowersOf(follows, followers(follows, buyers, level - 1))

\* the follower_id values of all rows of the CTE
FollowersWithin(follows, buyers, level) ==
    UNION {followers(follows, buyers, l) : l \in 1..level}

\* the default record both functions return when the query gives no row
DefaultVirality ==
    [id |-> Str(1), name |-> "", category |-> "", price |-> 0,
     purchase_count |-> 0, viral_score |-> <<0, 1>>]

\* pg_get_product_virality: products JOIN purchases JOIN users JOIN followers,
\* one group per product; no row when no purchaser is also a follower_id
pg_get_product_virality(product, follows, buyers, level) ==
    LET counted == buyers \cap FollowersWithin(follows, buyers, level)
    IN IF ~product.present \/ counted = {}
       THEN DefaultVirality
       ELSE [id |-> Str(1), name |-> product.name, category |-> product.category,
             price |-> product.price, purchase_count |-> Cardinality(counted),
             viral_score |-> <<Cardinality(counted), product.price>>]

\* neo4j_get_product_virality: MATCH the product, OPTIONAL MATCH two distinct
\* BOUGHT relationships (u1)->(p)<-(u2) with a FOLLOWS path of 1..level hops
\* from u1 to u2; a product without such a pair keeps its row with count 0
neo4j_get_product_virality(product, follows, buyers, level) ==
    LET counted == {u1 \in buyers :
                       \E u2 \in buyers \ {u1} : u1 \in FollowersWithin(follows, {u2}, level)}
    IN IF ~product.present
       THEN DefaultVirality
       ELSE [id |-> Str(1), name |-> product.name, category |-> product.category,
             price |-> product.price, purchase_count |-> Cardinality(counted),
             viral_score |-> IF product.price > 0
                             THEN <<Cardinality(counted), product.price>>
                             ELSE <<0, 1>>]

\* the comparison command's first callable: the SQL function
RunPgProductVirality ==
    /\ net.pg_virality = <<>>
    /\ net' = [net EXCEPT !.pg_virality =
                  <<pg_get_product_virality(net.product, net.follows, net.buyers,
                                            net.max_level)>>]
    /\ UNCHANGED <<clock, benchmark_results, generation_metrics, workers, lastPoll, bench, cmp, gen, lastRead, pool, social>>

\* the comparison command's second callable: the Cypher function
RunNeo4jProductVirality ==
    /\ net.neo4j_virality = <<>>
    /\ net' = [net EXCEPT !.neo4j_virality =
                  <<neo4j_get_product_virality(net.product, net.follows, net.buyers,
                                               net.max_level)>>]
    /\ UNCHANGED <<clock, benchmark_results, generation_metrics, workers, lastPoll, bench, cmp, gen, lastRead, pool, social>>

\* ----------------------------------------------------------- SpecVirality
InitVirality ==
    /\ clock = 0
    /\ benchmark_results = [id \in TaskIds |-> NoEntry]
    /\ generation_metrics = [id \in TaskIds |-> "absent"]
    /\ workers = [w \in Slots |-> Unused]
    /\ lastPoll = NoPoll
    /\ bench = BenchIdle
    /\ cmp = CmpIdle
    /\ gen = GenIdle
    /\ lastRead = NoRead
    /\ pool = PoolIdle
    /\ social = SocialIdle
    /\ \E follows \in SUBSET FollowEdges, buyers \in SUBSET NetUsers, max_level \in 1..MaxLevel,
          product \in Products :
         \* a purchase row references a product row (foreign key)
         /\ ~product.present => buyers = {}
         /\ net = [NetIdle EXCEPT !.follows = follows, !.buyers = buyers,
                                  !.max_level = max_level, !.product = product]

NextVirality ==
    \/ RunPostgresVirality
    \/ RunNeo4jVirality
    \/ RunPgProductVirality
    \/ RunNeo4jProductVirality

SpecVirality == InitVirality /\ [][NextVirality]_vars

\* ------------------------------------------------------------------- Spec
Init ==
    /\ clock = 0
    /\ benchmark_results = [id \in TaskIds |-> NoEntry]
    /\ generation_metrics = [id \in TaskIds |-> "absent"]
    /\ workers = [w \in Slots |-> Unused]
    /\ lastPoll = NoPoll
    /\ bench = BenchIdle
    /\ cmp = CmpIdle
    /\ gen = GenIdle
    /\ net = NetIdle
    /\ lastRead = NoRead
    /\ pool = PoolIdle
    /\ social = SocialIdle

Next ==
    \/ Tick
    \/ generate_data
    \/ \E test_type \in TestTypes : run_benchmark(test_type)
    \/ \E id \in TaskIds : get_task_status(id)
    \/ \E w \in Slots : GenBegin(w)
    \/ \E w \in Slots : GenStepReturns(w)
    \/ \E w \in Slots, e \in ExcTexts : GenStepRaises(w, e)
    \/ \E w \in Slots : GenMetricsStored(w)
    \/ \E w \in Slots, e \in MetricsExcTexts : GenMetricsRaises(w, e)
    \/ \E w \in Slots : BenchBegin(w)
    \/ \E w \in Slots, have_data \in BOOLEAN : BenchSampled(w, have_data)
    \/ \E w \in Slots : BenchOpReturns(w)
    \/ \E w \in Slots, e \in ExcTexts : BenchRaises(w, e)

Spec == Init /\ [][Next]_vars

\* ======================================================================
\* The sub-batch loop of generate_follows / generate_purchases
\* ======================================================================
PoolFrame == <<clock, benchmark_results, generation_metrics, workers, lastPoll, bench,
               cmp, gen, net, lastRead, social>>

\* a sub-batch whose calls all get the session opened first
SessionShared(p, j) == p.next_session

\* session = async_session() in the loop that builds the tasks: call j of a
\* sub-batch gets a session of its own
SessionFor(p, j) == p.next_session + j - 1

\* the calls of the sub-batch that have started and not ended
InFlight(p) == {j \in 1..Len(p.calls) : p.calls[j].pc \in {"service", "closing"}}

\* sub_batch = batch[j:j+sub_batch_size]; a session and a coroutine are
\* created for every pair of it, then asyncio.gather is awaited
StartSubBatch ==
    /\ pool.pc = "loop" /\ pool.todo > 0
    /\ LET n == Min(sub_batch_size, pool.todo) IN
         pool' = [pool EXCEPT
                     !.pc = "gather",
                     !.calls = [j \in 1..n |-> [session |-> SessionFor(pool, j),
                                                 pc |-> "created", outcome |-> "none"]],
                     !.opened = @ \cup {SessionFor(pool, j) : j \in 1..n},
                     !.next_session = @ + n]
    /\ UNCHANGED PoolFrame

\* the event loop starts _create_follow / _create_purchase of call j: it enters
\* `async with session` and awaits the service function
CallStarts(j) ==
    /\ pool.pc = "gather" /\ j \in 1..Len(pool.calls)
    /\ pool.calls[j].pc = "created"
    /\ pool' = [pool EXCEPT !.calls[j].pc = "service"]
    /\ UNCHANGED PoolFrame

\* follow_user / create_purchase of call j returns success, returns failure
\* or raises; the finally clause awaits session.close()
ServiceEnds(j, outcome) ==
    /\ pool.pc = "gather" /\ j \in 1..Len(pool.calls)
    /\ pool.calls[j].pc = "service"
    /\ pool' = [pool EXCEPT !.calls[j].pc = "closing", !.calls[j].outcome = outcome]
    /\ UNCHANGED PoolFrame

\* session.close() of call j returns and the call ends
SessionClosed(j) ==
    /\ pool.pc = "gather" /\ j \in 1..Len(pool.calls)
    /\ pool.calls[j].pc = "closing"
    /\ pool' = [pool EXCEPT !.calls[j].pc = "ended",
                            !.closed = @ \cup {pool.calls[j].session}]
    /\ UNCHANGED PoolFrame

\* asyncio.gather returns: the successes are counted, the next sub-batch follows
SubBatchGathered ==
    /\ pool.pc = "gather"
    /\ \A j \in 1..Len(pool.calls) : pool.calls[j].pc = "ended"
    /\ pool' = [pool EXCEPT
                    !.pc = "loop",
                    !.todo = @ - Len(pool.calls),
                    !.total = @ + Cardinality({j \in 1..Len(pool.calls) :
                                                 pool.calls[j].outcome = "ok"}),
                    !.calls = <<>>]
    /\ UNCHANGED PoolFrame

\* no pair is left: the method returns the number of successes
EdgesGenerated ==
    /\ pool.pc = "loop" /\ pool.todo = 0
    /\ pool' = [pool EXCEPT !.pc = "done"]
    /\ UNCHANGED PoolFrame

\* --------------------------------------------------------------- SpecPool
InitPool ==
    /\ clock = 0
    /\ benchmark_results = [id \in TaskIds |-> NoEntry]
    /\ generation_metrics = [id \in TaskIds |-> "absent"]
    /\ workers = [w \in Slots |-> Unused]
    /\ lastPoll = NoPoll
    /\ bench = BenchIdle
    /\ cmp = CmpIdle
    /\ gen = GenIdle
    /\ net = NetIdle
    /\ lastRead = NoRead
    /\ social = SocialIdle
    /\ \E kind \in {"follows", "purchases"}, todo \in 0..MaxEdges :
         pool = [PoolIdle EXCEPT !.pc = "loop", !.kind = kind, !.todo = todo]

NextPool ==
    \/ StartSubBatch
    \/ \E j \in 1..sub_batch_size : CallStarts(j)
    \/ \E j \in 1..sub_batch_size, outcome \in {"ok", "failed", "raised"} : ServiceEnds(j, outcome)
    \/ \E j \in 1..sub_batch_size : SessionClosed(j)
    \/ SubBatchGathered
    \/ EdgesGenerated

SpecPool == InitPool /\ [][NextPool]_vars

\* ======================================================================
\* Concurrent follow_user calls, each with a session of its own
\* ======================================================================
SocialFrame == <<clock, benchmark_results, generation_metrics, workers, lastPoll, bench,
                 cmp, gen, net, lastRead, pool>>

\* a request (or a task of a sub-batch) calls follow_user and awaits get_user
FollowRequested(c, pair) ==
    /\ social.calls[c].pc = "none"
    /\ social' = [social EXCEPT !.calls[c] = [NoCall EXCEPT !.pc = "get_user", !.pair = pair]]
    /\ UNCHANGED SocialFrame

\* the two get_user calls return: False when a user is missing, else the
\* select of an existing row is awaited
UsersChecked(c) ==
    /\ social.calls[c].pc = "get_user"
    /\ LET pair == social.calls[c].pair IN
         social' = [social EXCEPT !.calls[c].pc =
                       IF pair[1] \in social.users /\ pair[2] \in social.users
                       THEN "select" ELSE "returned"]
    /\ UNCHANGED SocialFrame

\* the select returns the rows committed so far: existing_follow
ExistingSelected(c) ==
    /\ social.calls[c].pc = "select"
    /\ LET existing_follow == social.rows[social.calls[c].pair] > 0 IN
         social' = [social EXCEPT !.calls[c].existing_follow = existing_follow,
                                  !.calls[c].pc = IF existing_follow THEN "merge" ELSE "commit"]
    /\ UNCHANGED SocialFrame

\* db.add(follow); await db.commit(): the table has no unique constraint on
\* (follower_id, followed_id), the insert adds a row
FollowCommitted(c) ==
    /\ social.calls[c].pc = "commit"
    /\ social' = [social EXCEPT !.rows[social.calls[c].pair] = @ + 1,
                                !.calls[c].pc = "merge"]
    /\ UNCHANGED SocialFrame

\* the commit raises: the outer except clause returns False
FollowCommitRaises(c) ==
    /\ social.calls[c].pc = "commit"
    /\ social' = [social EXCEPT !.calls[c].pc = "returned"]
    /\ UNCHANGED SocialFrame

\* MERGE (u1)-[r:FOLLOWS]->(u2) returns the relationship: True
FollowMerged(c) ==
    /\ social.calls[c].pc = "merge"
    /\ LET pair == social.calls[c].pair IN
         social' = [social EXCEPT !.graph = @ \cup {<<Str(pair[1]), Str(pair[2])>>},
                                  !.calls[c].pc = "returned",
                                  !.calls[c].success = TRUE]
    /\ UNCHANGED SocialFrame

\* session.run raises: the inner except clause returns False
FollowMergeRaises(c) ==
    /\ social.calls[c].pc = "merge"
    /\ social' = [social EXCEPT !.calls[c].pc = "returned"]
    /\ UNCHANGED SocialFrame

\* ------------------------------------------------------------- SpecSocial
InitSocial ==
    /\ clock = 0
    /\ benchmark_results = [id \in TaskIds |-> NoEntry]
    /\ generation_metrics = [id \in TaskIds |-> "absent"]
    /\ workers = [w \in Slots |-> Unused]
    /\ lastPoll = NoPoll
    /\ bench = BenchIdle
    /\ cmp = CmpIdle
    /\ gen = GenIdle
    /\ net = NetIdle
    /\ lastRead = NoRead
    /\ pool = PoolIdle
    /\ \E users \in SUBSET (1..MaxUsers) : social = [SocialIdle EXCEPT !.users = users]

NextSocial ==
    \/ \E c \in Callers, pair \in FollowPairs : FollowRequested(c, pair)
    \/ \E c \in Callers : UsersChecked(c)
    \/ \E c \in Callers : ExistingSelected(c)
    \/ \E c \in Callers : FollowCommitted(c)
    \/ \E c \in Callers : FollowCommitRaises(c)
    \/ \E c \in Callers : FollowMerged(c)
    \/ \E c \in Callers : FollowMergeRaises(c)

SpecSocial == InitSocial /\ [][NextSocial]_vars

\* -------------------------------------------------------------- SpecReads
\* the registry under generation tasks and benchmark tasks of one operation,
\* with every read endpoint
NextReads ==
    \/ Tick
    \/ generate_data
    \/ run_benchmark("product_virality")
    \/ \E id \in TaskIds : get_task_status(id)
    \/ \E id \in TaskIds : get_benchmark_results(id)
    \/ list_benchmarks
    \/ get_benchmark_tasks
    \/ \E w \in Slots : GenBegin(w)
    \/ \E w \in Slots : GenStepReturns(w)
    \/ \E w \in Slots, e \in ExcTexts : GenStepRaises(w, e)
    \/ \E w \in Slots : GenMetricsStored(w)
    \/ \E w \in Slots, e \in MetricsExcTexts : GenMetricsRaises(w, e)
    \/ \E w \in Slots : BenchBegin(w)
    \/ \E w \in Slots, have_data \in BOOLEAN : BenchSampled(w, have_data)
    \/ \E w \in Slots : BenchOpReturns(w)
    \/ \E w \in Slots, e \in ExcTexts : BenchRaises(w, e)

SpecReads == Init /\ [][NextReads]_vars

\* ------------------------------------------------------------- SpecRunner
InitRunner ==
    /\ clock = 0
    /\ benchmark_results = [id \in TaskIds |-> NoEntry]
    /\ generation_metrics = [id \in TaskIds |-> "absent"]
    /\ workers = [w \in Slots |-> Unused]
    /\ lastPoll = NoPoll
    /\ cmp = CmpIdle
    /\ gen = GenIdle
    /\ net = NetIdle
    /\ lastRead = NoRead
    /\ pool = PoolIdle
    /\ social = SocialIdle
    /\ \E test_type \in TestTypes, iterations \in 0..MaxIter :
         bench = [BenchIdle EXCEPT !.pc = "scheduled", !.test_type = test_type,
                                   !.iterations = iterations]

NextRunner ==
    \/ RunnerBegin
    \/ \E have_data \in BOOLEAN : RunnerSampled(have_data)
    \/ \E e \in ExcTexts : RunnerSampleRaises(e)
    \/ CallReturns
    \/ \E e \in ExcTexts : CallRaises(e)
    \/ CallTimesOut
    \/ StoreResults

SpecRunner == InitRunner /\ [][NextRunner]_vars

\* the event loop starts a scheduled task and runs code that is not waiting;
\* an armed timer fires; a backend is not obliged to answer
FairRunner ==
    /\ SpecRunner
    /\ WF_vars(RunnerBegin)
    /\ WF_vars(StoreResults)
    /\ WF_vars(CallTimesOut)

\* ------------------------------------------------------------ SpecCompare
\* the three comparators applied, in any order, to one pair of positive averages
InitCompare ==
    /\ clock = 0
    /\ benchmark_results = [id \in TaskIds |-> NoEntry]
    /\ generation_metrics = [id \in TaskIds |-> "absent"]
    /\ workers = [w \in Slots |-> Unused]
    /\ lastPoll = NoPoll
    /\ bench = BenchIdle
    /\ gen = GenIdle
    /\ net = NetIdle
    /\ lastRead = NoRead
    /\ pool = PoolIdle
    /\ social = SocialIdle
    /\ \E a, b \in 1..MaxAvg : cmp = [CmpIdle EXCEPT !.pg_avg = a, !.neo4j_avg = b]

NextCompare ==
    \/ compare_benchmarks
    \/ print_benchmark_summary
    \/ run_comparative_test

SpecCompare == InitCompare /\ [][NextCompare]_vars

\* ======================================================================
\* Properties
\* ======================================================================
Terminal(status) == status \in {"completed", "failed", "error"}

\* C1: an entry is created "running", and once its status is terminal the
\* entry is never written again (no second transition, no other write)
C1_TerminalEntryIsFinal ==
    [][\A id \in TaskIds :
         /\ (benchmark_results[id] = NoEntry /\ benchmark_results'[id] # NoEntry)
                => benchmark_results'[id].status = "running"
         /\ (benchmark_results[id] # NoEntry /\ Terminal(benchmark_results[id].status))
                => benchmark_results'[id] = benchmark_results[id]]_vars

\* C2: two start requests of the same kind never receive the same task id
C2_TaskIdsDistinct ==
    \A v, w \in Slots :
        (v # w /\ workers[v].pc # "unused" /\ workers[w].pc # "unused"
              /\ workers[v].kind = workers[w].kind)
            => workers[v].task_id # workers[w].task_id

\* C3: a poll of an id that a start request has already returned never
\* answers "not_found"
C3_ReturnedIdIsFound ==
    [][\A id \in Returned :
         (lastPoll' # lastPoll /\ lastPoll'.task_id = id)
            => lastPoll'.status # "not_found"]_vars

\* C4: a poll of an id that is not in the registry answers "not_found" with
\* progress 0 and leaves the registry as it was
C4_UnknownIdNotFound ==
    [][\A id \in TaskIds :
         (benchmark_results[id] = NoEntry /\ lastPoll' # lastPoll /\ lastPoll'.task_id = id)
            => /\ lastPoll' = [task_id |-> id, status |-> "not_found", progress |-> 0]
               /\ benchmark_results' = benchmark_results]_vars

C4_Witness ==
    /\ lastPoll.status = "not_found"
    /\ benchmark_results[lastPoll.task_id] = NoEntry

\* C5: when an exception escapes a task body the entry stays, its status is
\* the failure status of the task's kind, its message holds the exception
\* text, and the worker ends instead of passing the exception on
C5_EscapedExceptionRecorded ==
    [][\A w \in Slots :
         (workers[w].exc = "" /\ workers'[w].exc # "")
            => LET entry == benchmark_results'[workers[w].task_id] IN
               /\ entry # NoEntry
               /\ entry.status = IF workers[w].kind = "benchmark" THEN "failed" ELSE "error"
               /\ workers'[w].exc \in Range(entry.message)
               /\ workers'[w].pc = "done"]_vars

C5_Witness ==
    \E v, w \in Slots :
        /\ workers[v].kind = "generate" /\ workers[v].exc # ""
        /\ benchmark_results[workers[v].task_id].status = "error"
        /\ workers[w].kind = "benchmark" /\ workers[w].exc # ""
        /\ benchmark_results[workers[w].task_id].status = "failed"

\* C6: the polled progress is 100 for a completed task and 0 for a task that
\* ended in failure, "failed" and "error" alike
C6_ProgressFollowsStatus ==
    /\ lastPoll.status = "completed" => lastPoll.progress = 100
    /\ lastPoll.status \in {"failed", "error"} => lastPoll.progress = 0

\* C7: of two successive polls of one id the later progress is at least the
\* earlier, and a poll that answers "running" reports at most 99
C7_ProgressMonotone ==
    [][(lastPoll # NoPoll /\ lastPoll' # lastPoll /\ lastPoll'.task_id = lastPoll.task_id)
          => /\ lastPoll'.progress >= lastPoll.progress
             /\ lastPoll'.status = "running" => lastPoll'.progress <= 99]_vars

\* C8: a graph-store invocation that times out appends exactly one sentinel
\* sample, adds exactly 1 to the graph store's error counter of the
\* operation, and the loop goes on
C8_TimeoutCountedOnce ==
    [][(bench.pc = "call" /\ bench'.awaits = bench.awaits + 1 /\ bench'.event = "timeout")
          => /\ bench'.neo4j_times = Append(bench.neo4j_times, Sentinel)
             /\ bench'.neo4j_errors = bench.neo4j_errors + 1
             /\ bench'.pg_errors = bench.pg_errors
             /\ bench'.pc = IF bench.i + 1 < bench.iterations THEN "call" ELSE "loops_done"]_vars

\* C9: an exception of one backend invocation, in any operation, is counted,
\* the run goes on, and the task does not fail
C9_InvocationErrorContained ==
    [][(bench.pc = "call" /\ bench'.awaits = bench.awaits + 1 /\ bench'.event = "raised")
          => /\ bench'.pc \in {"call", "loops_done"}
             /\ bench'.pg_errors + bench'.neo4j_errors
                    = bench.pg_errors + bench.neo4j_errors + 1
             /\ benchmark_results'[RunnerTask].status = "running"]_vars

\* C10: under fair scheduling and firing timers the benchmark task reaches a
\* terminal status whatever the backends do
C10_TaskEventuallyTerminal ==
    <>Terminal(benchmark_results[RunnerTask].status)

\* the test types run_benchmark has a branch for
KnownTypes == TestTypes \ {"bogus"}

\* the operations whose statistics a run has stored, in program order
StoredOps(b) == [j \in 1..Len(b.results) |-> b.results[j].op]

\* C11: a run with a test type that is not a known name stores, in the same
\* order, the operations that test type "all" runs, and does not raise
C11_UnknownTypeRunsAll ==
    (bench.test_type \notin KnownTypes /\ bench.iterations > 0 /\ bench.pc = "done"
        /\ bench.k >= 1 /\ bench.faults = 0)
      => /\ bench.exc = ""
         /\ StoredOps(bench) = OpsFor("all")

\* C12: with iterations = 0 every operation stores all-zero statistics for
\* both backends and no exception ends the run
C12_EmptySamplesGiveZeroStats ==
    (bench.iterations = 0 /\ bench.k >= 1)
      => /\ bench.exc = ""
         /\ \A j \in 1..Len(bench.results) :
               /\ bench.results[j].postgresql = ZeroStats
               /\ bench.results[j].neo4j = ZeroStats

\* the verdict names the backend whose average is the smaller one and its
\* factor is max / min (hence at least 1)
SoundVerdict(v, pg_avg, neo4j_avg) ==
    /\ v.factor[1] >= v.factor[2]
    /\ v.factor[1] * Min(pg_avg, neo4j_avg)
          = v.factor[2] * (IF pg_avg > neo4j_avg THEN pg_avg ELSE neo4j_avg)
    /\ pg_avg < neo4j_avg => v.faster = "PostgreSQL"
    /\ neo4j_avg < pg_avg => v.faster = "Neo4j"

\* the verdict on the same two latencies handed over in the other order:
\* each backend name then stands for the other input
Mirrored(v) ==
    [v EXCEPT !.faster = IF v.faster = "Neo4j" THEN "PostgreSQL" ELSE "Neo4j"]

\* C13: each comparator reports factor max/min >= 1 and the backend with the
\* smaller average, the verdict does not depend on the order of the two
\* inputs, and the three comparators agree on every pair, ties included
C13_ComparatorsAgree ==
    (cmp.comparison # <<>> /\ cmp.summary # <<>> /\ cmp.test_result # <<>>)
      => /\ \A v \in {cmp.comparison[1], cmp.summary[1], cmp.test_result[1]} :
               SoundVerdict(v, cmp.pg_avg, cmp.neo4j_avg)
         /\ ComparisonOf(cmp.neo4j_avg, cmp.pg_avg) = <<Mirrored(cmp.comparison[1])>>
         /\ SummaryOf(cmp.neo4j_avg, cmp.pg_avg) = <<Mirrored(cmp.summary[1])>>
         /\ ComparativeResult(cmp.neo4j_avg, cmp.pg_avg) = <<Mirrored(cmp.test_result[1])>>
         /\ cmp.comparison[1].faster = cmp.summary[1].faster
         /\ cmp.summary[1].faster = cmp.test_result[1].faster
         /\ cmp.comparison[1].factor = cmp.summary[1].factor
         /\ cmp.summary[1].factor = cmp.test_result[1].factor

\* generate_users / generate_products has returned for this kind
Generated(kind) ==
    /\ gen.pc \notin {"unused", "scheduled"}
    /\ gen.pc \in {"entities", "fallback"} => (kind = "users" /\ gen.kind = "products")

\* C14: a request with 0 users or 0 products writes nothing for that kind,
\* reports the count 0, raises nothing, and the task ends "completed"
C14_ZeroCountIsNoOp ==
    \A kind \in EntityKinds :
        (gen.pc = "done" /\ gen.requested[kind] = 0)
          => /\ gen.rel[kind] = {} /\ gen.graph[kind] = {}
             /\ gen.count[kind] = 0
             /\ benchmark_results[GenTask].status = "completed"

\* C15: every pair generate_follows hands to _create_follow, and every follow
\* edge either store holds, has a follower different from the followed user
C15_NoSelfFollow ==
    /\ gen.pc = "follows" => \A j \in 1..Len(gen.pending) :
                                 gen.pending[j][1] # gen.pending[j][2]
    /\ \A e \in gen.rel_follows : e[1] # e[2]
    /\ \A e \in gen.graph_follows : e[1] # e[2]

C15_Witness ==
    /\ gen.pc = "done" /\ Len(gen.ids["users"]) = MaxCount
    /\ Cardinality(gen.rel_follows) >= MaxCount
    /\ gen.graph_follows = {<<Str(e[1]), Str(e[2])>> : e \in gen.rel_follows}

\* C16: when no write failed, generate_users has returned exactly the
\* requested number of identifiers, all distinct, and every batch it handed
\* over held between 1 and batch_size entities
C16_AllRequestedUsersCreated ==
    [][/\ (Generated("users")' /\ gen'.errors = GenIdle.errors)
            => /\ Len(gen'.ids["users"]) = gen'.requested["users"]
               /\ Cardinality(Range(gen'.ids["users"])) = gen'.requested["users"]
               /\ gen'.count["users"] = gen'.requested["users"]
       /\ (gen.kind = "users" /\ gen'.made # gen.made /\ gen'.kind = "users")
            => gen'.made - gen.made \in 1..batch_size]_vars

C16_Witness ==
    /\ Generated("users") /\ gen.errors = GenIdle.errors
    /\ gen.requested["users"] > batch_size
    /\ gen.requested["users"] % batch_size # 0
    /\ Len(gen.ids["users"]) = gen.requested["users"]

\* what the run reports as created
Successes(g) ==
    g.count["users"] + g.count["products"] + g.count["follows"] + g.count["purchases"]

\* C17: at the end of a run the recorded errors (of either store, or of both
\* together) plus the successes equal the attempted writes
C17_ErrorsPlusSuccessesIsAttempted ==
    gen.pc = "done"
      => \E errorCount \in {gen.errors.postgresql, gen.errors.neo4j,
                            gen.errors.postgresql + gen.errors.neo4j} :
            errorCount + Successes(gen) = gen.attempted

\* C18: an edge is counted only when both stores hold it, and a write that
\* reached one store only is not counted and grows an error counter
C18_EdgeCountedOnlyInBothStores ==
    [][/\ gen'.count["follows"] > gen.count["follows"]
            => \E e \in gen'.rel_follows :
                  <<Str(e[1]), Str(e[2])>> \in gen'.graph_follows \ gen.graph_follows
       /\ gen'.count["purchases"] > gen.count["purchases"]
            => \E e \in gen'.rel_purchases :
                  <<Str(e[1]), Str(e[2])>> \in gen'.graph_purchases \ gen.graph_purchases
       /\ ((gen'.rel_follows # gen.rel_follows /\ gen'.graph_follows = gen.graph_follows)
             \/ (gen'.rel_purchases # gen.rel_purchases
                   /\ gen'.graph_purchases = gen.graph_purchases))
            => /\ gen'.count = gen.count
               /\ gen'.errors.postgresql + gen'.errors.neo4j
                     > gen.errors.postgresql + gen.errors.neo4j]_vars

\* C19: once generate_users / generate_products has returned, the relational
\* store and the graph store hold the same entities of that kind, each under
\* the same identifier string
C19_StoresHoldSameEntities ==
    \A kind \in EntityKinds :
        Generated(kind) => {Str(id) : id \in gen.rel[kind]} = gen.graph[kind]

\* the user count a result reports for a level (0 when it has no row for it)
CountAt(rows, level) ==
    IF \E r \in rows : r[1] = level
    THEN (CHOOSE r \in rows : r[1] = level)[2]
    ELSE 0

\* C20: for every follow graph, set of purchasers and max_level the two
\* product-virality queries report the same user count at every level
C20_ViralityQueriesAgree ==
    (net.pg_rows # <<>> /\ net.neo4j_rows # <<>>)
      => \A level \in 1..net.max_level :
            CountAt(net.pg_rows[1], level) = CountAt(net.neo4j_rows[1], level)

\* the same rational number
SameScore(a, b) == a[1] * b[2] = b[1] * a[2]

\* C21: for every product id and level the SQL and the Cypher product-virality
\* function return the same record, also for a product without a buyer in the
\* follow network and for a product id that does not exist
C21_ProductViralityAgree ==
    (net.pg_virality # <<>> /\ net.neo4j_virality # <<>>)
      => LET pg == net.pg_virality[1]
             neo4j == net.neo4j_virality[1]
         IN /\ pg.id = neo4j.id
            /\ pg.name = neo4j.name
            /\ pg.category = neo4j.category
            /\ pg.price = neo4j.price
            /\ pg.purchase_count = neo4j.purchase_count
            /\ SameScore(pg.viral_score, neo4j.viral_score)

\* C22: a read of the registry and a start request leave every entry
\* unchanged, and an entry is written only by the one background worker of
\* its task: no other worker has written it before
C22_OnlyOwnerWrites ==
    [][/\ (lastPoll' # lastPoll \/ lastRead' # lastRead)
            => benchmark_results' = benchmark_results
       /\ (\E w \in Slots : workers[w].pc = "unused" /\ workers'[w].pc # "unused")
            => benchmark_results' = benchmark_results
       /\ \A id \in TaskIds :
            benchmark_results'[id] # benchmark_results[id]
              => \E w \in Slots :
                    /\ workers'[w] # workers[w]
                    /\ workers[w].task_id = id
                    /\ \A v \in Slots \ {w} :
                          workers[v].task_id = id
                             => workers[v].pc \in {"unused", "scheduled"}]_vars

\* C23: within one run_benchmark call every invocation of the progress
\* callback passes the same total_steps, and a current_step that is not
\* below the one of the invocation before, for every test_type
C23_CallbackStepsMonotone ==
    [][(benchmark_results[RunnerTask] # NoEntry /\ benchmark_results'[RunnerTask] # NoEntry)
         => /\ benchmark_results'[RunnerTask].total_steps
                  = benchmark_results[RunnerTask].total_steps
            /\ benchmark_results'[RunnerTask].current_step[1]
                  >= benchmark_results[RunnerTask].current_step[1]]_vars

\* the documented order of the steps of a generation task and of a benchmark
\* task with test_type "all"; <<>> for the other benchmark tasks
DocumentedOrder(wk) ==
    IF wk.kind = "generate" THEN <<"users", "products", "follows", "purchases">>
    ELSE IF wk.test_type = "all"
         THEN <<"user_retrieval", "product_retrieval", "user_follows", "product_purchases",
                "product_virality", "user_influence", "viral_products",
                "recommendation_queries">>
         ELSE <<>>

\* a task is inside one of its steps
InStep(wk) == wk.pc \in {"await", "op"}

StepOf(wk) == IF wk.kind = "generate" THEN GenSteps[wk.k] ELSE OpsFor(wk.test_type)[wk.k]

\* C24: a task is in one step at a time; the step it enters is the one that
\* follows, in the documented order, the step it has just finished (the first
\* one when it has finished none)
C24_StepsInDocumentedOrder ==
    [][\A w \in Slots :
         LET a == workers[w]
             b == workers'[w]
         IN (InStep(b) /\ (~InStep(a) \/ a.k # b.k))
              => /\ b.k = (IF InStep(a) THEN a.k ELSE 0) + 1
                 /\ DocumentedOrder(b) # <<>> => StepOf(b) = DocumentedOrder(b)[b.k]]_vars

\* an "all" benchmark has reached its last operation and a generation task
\* its last step
C24_Witness ==
    \E v, w \in Slots :
        /\ workers[v].kind = "benchmark" /\ workers[v].test_type = "all"
        /\ workers[v].pc = "op" /\ workers[v].k = 8
        /\ workers[w].kind = "generate" /\ workers[w].pc = "await" /\ workers[w].k = 4

\* the runner is inside operation k or has left it
InOperation(b) == b.pc \in {"call", "loops_done", "done"} /\ b.k \in 1..Len(OpsFor(b.test_type))

\* C25: in every operation the relational and the graph implementation are
\* invoked in turn, iteration by iteration (the relational one is never more
\* than one sample ahead), and when the operation is over, by its return or by
\* a failure, each backend holds exactly `iterations` samples
C25_OneSamplePerBackendPerIteration ==
    InOperation(bench)
      => /\ Len(bench.neo4j_times) <= Len(bench.pg_times)
         /\ Len(bench.pg_times) <= Len(bench.neo4j_times) + 1
         /\ bench.pc \in {"loops_done", "done"}
              => /\ Len(bench.pg_times) = bench.iterations
                 /\ Len(bench.neo4j_times) = bench.iterations

\* the entities of the current batch the fallback has still to attempt
Remaining(g) == IF g.pc = "fallback" THEN g.batch ELSE 0

\* the entities of the current kind reported as created so far
Reported(g) == Len(g.ids[g.kind]) + Len(g.created)

\* C26: when the batch call raises, the fallback starts with every entity of
\* the batch to attempt; each of its steps attempts exactly one entity, which
\* is reported as created or grows the relational error counter by one; the
\* loop ends only after the last entity, and then the run goes on with the
\* next batch
C26_FallbackTriesEveryEntity ==
    [][/\ (gen.pc = "entities" /\ gen'.pc = "fallback")
            => /\ gen'.batch = NextBatch(gen)
               /\ gen'.made = gen.made + NextBatch(gen)
       /\ gen.pc = "fallback"
            => /\ gen'.pc \in {"fallback", "entities"}
               /\ Remaining(gen') = gen.batch - 1
               /\ gen'.kind = gen.kind /\ gen'.made = gen.made
               /\ Reported(gen') \in {Reported(gen), Reported(gen) + 1}
               /\ Reported(gen') = Reported(gen)
                    => /\ gen'.errors.postgresql = gen.errors.postgresql + 1
                       /\ gen'.errors.neo4j \in {gen.errors.neo4j, gen.errors.neo4j + 1}
               /\ Reported(gen') = Reported(gen) + 1 => gen'.errors = gen.errors]_vars

\* the first batch of users raised and the first of its two entities failed on
\* its own: the second one is still to be attempted, and a batch remains
C26_Witness ==
    /\ gen.kind = "users" /\ gen.pc = "fallback" /\ gen.batch = 1
    /\ gen.made = batch_size /\ gen.made < gen.requested["users"]
    /\ gen.errors.postgresql = 2
    /\ gen.created = <<>>

\* C27: whatever batch call failed and was written again by the fallback,
\* each store holds at most one row / node per logical product that was
\* requested
C27_RerunLeavesOneRowPerProduct ==
    /\ Cardinality(gen.rel["products"]) <= gen.requested["products"]
    /\ Cardinality(gen.graph["products"]) <= gen.requested["products"]

\* C28: at every moment of the sub-batch loop at most sub_batch_size calls are
\* in flight, no two of them use the same session, and the session of a call
\* that has ended (with success, failure or an exception) is closed; between
\* two sub-batches no session is open
C28_OwnSessionClosedAtEnd ==
    /\ Cardinality(InFlight(pool)) <= sub_batch_size
    /\ \A i, j \in InFlight(pool) :
          i # j => pool.calls[i].session # pool.calls[j].session
    /\ \A j \in 1..Len(pool.calls) :
          pool.calls[j].pc = "ended" => pool.calls[j].session \in pool.closed
    /\ pool.pc \in {"loop", "done"} => pool.opened = pool.closed

\* a full sub-batch: its first call raised and has ended with its session
\* closed while the other calls are in flight
C28_Witness ==
    /\ pool.pc = "gather" /\ Len(pool.calls) = sub_batch_size
    /\ pool.calls[1].pc = "ended" /\ pool.calls[1].outcome = "raised"
    /\ pool.calls[1].session \in pool.closed
    /\ \A j \in 2..sub_batch_size : j \in InFlight(pool)

\* the positions of the pairs of user u in a list of pairs
PairsFrom(pairs, u) == {j \in 1..Len(pairs) : pairs[j][1] = u}

\* the pairs of user u have pairwise different targets
DistinctTargets(pairs, u) ==
    \A i, j \in PairsFrom(pairs, u) : i # j => pairs[i][2] # pairs[j][2]

\* C29: with n >= 2 users generate_follows draws for each user of a slice
\* between 1 and min(max_follows, n - 1) pairs with distinct targets, and
\* generate_purchases between 0 and max_purchases pairs with distinct products;
\* the counts of a run stay within n * max_follows and n * max_purchases; with
\* fewer than 2 users no follow is counted or written
C29_FanoutWithinBounds ==
    [][LET n == Len(gen.ids["users"]) IN
       /\ (gen.pc = "follows" /\ gen.pending = <<>> /\ gen'.pending # <<>>)
            => \A u \in Range(BatchUsers(gen)) :
                  /\ Cardinality(PairsFrom(gen'.pending, u)) >= 1
                  /\ Cardinality(PairsFrom(gen'.pending, u)) <= Min(gen.max_follows, n - 1)
                  /\ DistinctTargets(gen'.pending, u)
       /\ (gen.pc = "purchases" /\ gen.pending = <<>> /\ gen'.pending # <<>>)
            => \A u \in Range(BatchUsers(gen)) :
                  /\ Cardinality(PairsFrom(gen'.pending, u)) <= gen.max_purchases
                  /\ DistinctTargets(gen'.pending, u)
       /\ gen'.count["follows"] <= Len(gen'.ids["users"]) * gen'.max_follows
       /\ gen'.count["purchases"] <= Len(gen'.ids["users"]) * gen'.max_purchases
       /\ (gen'.pc \in {"purchases", "done"} /\ TooFewUsers(gen'))
            => /\ gen'.count["follows"] = 0
               /\ gen'.rel_follows = {} /\ gen'.graph_follows = {}]_vars

\* a run over three users in which every user followed two others and every
\* follow was counted, with purchases counted too
C29_Witness ==
    /\ gen.pc = "done" /\ Len(gen.ids["users"]) = 3 /\ gen.max_follows = 2
    /\ gen.count["follows"] = 6
    /\ gen.count["purchases"] >= 1

\* C30: after any interleaving of concurrent follow_user calls the follows
\* table holds at most one row for each (follower, followed) pair
C30_OneRowPerPair ==
    \A q \in FollowPairs : social.rows[q] <= 1

====
